---- MODULE Spec2Model ----
\* The TGI auth service (src/services/auth/app.py): failed-attempt tracking,
\* IP banning and bearer-token validation, as a state machine.
\*
\* A request is handled in two steps, as the ASGI stack runs it: ban_middleware
\* (the ban check), then, after the yield of `await call_next(request)`, the
\* route handler (validate_token or health_check).  Each step is synchronous
\* code on the one event loop and therefore atomic; steps of different
\* requests interleave freely between the two.
EXTENDS Integers, Naturals, Sequences, FiniteSets, Bags, TLC

\* ---------------------------------------------------------------- constants
MAX_FAILED_ATTEMPTS == 5
BAN_DURATION == 300
FAILED_ATTEMPT_RESET == 1800

\* The shared secret (os.getenv("VALID_TOKEN"), non-empty), as a string of
\* characters.
VALID_TOKEN == <<"s", "k">>

\* ------------------------------------------------------------------- bounds
\* Requests that may be between their ban check and their handler at once.
MaxInFlight == 2
\* Times the clock advances.
MaxTicks == 2

\* ------------------------------------------------------------------- inputs
Clients == {"10.0.0.5"}

\* Amounts by which the clock advances between two steps (time.time() is
\* read anew by every call): both sides of each of the two thresholds.
Delays == {BAN_DURATION, BAN_DURATION + 1,
           FAILED_ATTEMPT_RESET, FAILED_ATTEMPT_RESET + 1}

\* Optional[str]: None is <<>>, a present header h is <<h>>.
None == <<>>
Some(h) == <<h>>

BearerSp == <<"B", "e", "a", "r", "e", "r", " ">>

Headers ==
    { None,                                              \* no header
      Some(<<>>),                                        \* Authorization:
      Some(<<"B", "a", "s", "i", "c", " ", "s", "k">>),  \* Basic sk
      Some(BearerSp \o <<"s", "k">>),                    \* Bearer sk
      Some(BearerSp \o <<"s", "x">>),                    \* Bearer sx
      Some(BearerSp \o <<"s", "k", " ", "x">>) }         \* Bearer sk x

\* /health reads no header; one representative health request per client.
Requests ==
    [ip : Clients, path : {"/validate"}, authorization : Headers]
    \cup [ip : Clients, path : {"/health"}, authorization : {None}]

NoRequest == [ip |-> "-", path |-> "-", authorization |-> None]

\* -------------------------------------------------------------------- state
VARIABLES
    now,                      \* time.time()
    failed_attempts,          \* Dict[str, int] (defaultdict(int))
    ban_timestamps,           \* Dict[str, float]
    last_attempt_timestamps,  \* Dict[str, float]
    pending,                  \* bag of requests past the ban check, handler not yet run
    last,                     \* the step just taken: request, response, calls made, count found
    recorded,                 \* history: update_failed_attempts calls since the count last started from nothing
    consec,                   \* history: failures in a row, each within the window of the previous, no success between
    admitted_since,           \* history: a request passed the ban check since the count last started
    ticks,                    \* history: times the clock has advanced
    cleared,                  \* history: is_ip_banned lifted the client's expired ban and nothing was recorded since
    first_failure             \* history: time of the first failure in recorded, -1 when there is none

tracker == <<failed_attempts, ban_timestamps, last_attempt_timestamps>>
vars == <<now, failed_attempts, ban_timestamps, last_attempt_timestamps,
          pending, last, recorded, consec, admitted_since, ticks,
          cleared, first_failure>>

\* ------------------------------------------------------------ dict helpers
Del(d, k) == [x \in DOMAIN d \ {k} |-> d[x]]
Put(d, k, v) == [x \in DOMAIN d \cup {k} |-> IF x = k THEN v ELSE d[x]]
\* defaultdict(int).__getitem__
Count(d, k) == IF k \in DOMAIN d THEN d[k] ELSE 0

\* ------------------------------------------------------ str helpers (Python)
\* str.startswith
StartsWith(s, p) == Len(s) >= Len(p) /\ SubSeq(s, 1, Len(p)) = p

\* Index of the first " " of s, 0 when there is none.
FirstSpace(s) ==
    IF \E i \in 1..Len(s) : s[i] = " "
    THEN CHOOSE i \in 1..Len(s) : s[i] = " " /\ \A j \in 1..(i - 1) : s[j] # " "
    ELSE 0

\* str.split(" "): the fields between single spaces, empty fields kept.
RECURSIVE Split(_)
Split(s) ==
    IF FirstSpace(s) = 0
    THEN <<s>>
    ELSE <<SubSeq(s, 1, FirstSpace(s) - 1)>>
         \o Split(SubSeq(s, FirstSpace(s) + 1, Len(s)))

\* ------------------------------------------------------------- BanTracker
\* Variant: the ban counted as over at exactly BAN_DURATION (>= for >).
BanExpired_ge(ip) == now - ban_timestamps[ip] >= BAN_DURATION

\* time.time() - ban_timestamps[ip] > BAN_DURATION
BanExpired(ip) == now - ban_timestamps[ip] > BAN_DURATION

\* Variant: the expiry branch without `del failed_attempts[ip]`.
is_ip_banned_keep_count(ip) ==
    IF ip \in DOMAIN ban_timestamps
    THEN IF BanExpired(ip)
         THEN [outcome |-> "expired",
               ban |-> Del(ban_timestamps, ip),
               fa |-> failed_attempts]
         ELSE [outcome |-> "active", ban |-> ban_timestamps, fa |-> failed_attempts]
    ELSE [outcome |-> "absent", ban |-> ban_timestamps, fa |-> failed_attempts]

\* Variant: a query under an active ban restarts the ban (sliding ban).
is_ip_banned_sliding(ip) ==
    IF ip \in DOMAIN ban_timestamps
    THEN IF BanExpired(ip)
         THEN IF ip \in DOMAIN failed_attempts
              THEN [outcome |-> "expired",
                    ban |-> Del(ban_timestamps, ip),
                    fa |-> Del(failed_attempts, ip)]
              ELSE [outcome |-> "KeyError",
                    ban |-> Del(ban_timestamps, ip),
                    fa |-> failed_attempts]
         ELSE [outcome |-> "active",
               ban |-> Put(ban_timestamps, ip, now),
               fa |-> failed_attempts]
    ELSE [outcome |-> "absent", ban |-> ban_timestamps, fa |-> failed_attempts]

\* is_ip_banned: the branch taken and the dicts it leaves.  "active" returns
\* True, "absent" and "expired" return False; "KeyError" is the expired branch
\* raising at `del failed_attempts[ip]` (the entry is missing), after
\* `del ban_timestamps[ip]` has run.
is_ip_banned(ip) ==
    IF ip \in DOMAIN ban_timestamps
    THEN IF BanExpired(ip)
         THEN IF ip \in DOMAIN failed_attempts
              THEN [outcome |-> "expired",
                    ban |-> Del(ban_timestamps, ip),
                    fa |-> Del(failed_attempts, ip)]
              ELSE [outcome |-> "KeyError",
                    ban |-> Del(ban_timestamps, ip),
                    fa |-> failed_attempts]
         ELSE [outcome |-> "active", ban |-> ban_timestamps, fa |-> failed_attempts]
    ELSE [outcome |-> "absent", ban |-> ban_timestamps, fa |-> failed_attempts]

\* What a query made in the current state returns ("raise" for the KeyError).
IsBannedReturn(ip) ==
    CASE is_ip_banned(ip).outcome = "active" -> "True"
      [] is_ip_banned(ip).outcome = "KeyError" -> "raise"
      [] OTHER -> "False"

\* Variant: a gap of exactly FAILED_ATTEMPT_RESET already stale (>= for >).
WindowStale_ge(ip) ==
    /\ ip \in DOMAIN last_attempt_timestamps
    /\ now - last_attempt_timestamps[ip] >= FAILED_ATTEMPT_RESET

\* current_time - last_attempt_timestamps[ip] > FAILED_ATTEMPT_RESET
WindowStale(ip) ==
    /\ ip \in DOMAIN last_attempt_timestamps
    /\ now - last_attempt_timestamps[ip] > FAILED_ATTEMPT_RESET

\* Variant: the count assigned instead of incremented (= 1 for += 1).
CountAfterFailure_assigned(ip) == 1

\* Variant: the stale reset left out, old failures keep counting.
CountAfterFailure_noreset(ip) == Count(failed_attempts, ip) + 1

\* failed_attempts after lines 49-52: the stale reset, then += 1.
CountAfterFailure(ip) ==
    (IF WindowStale(ip) THEN 0 ELSE Count(failed_attempts, ip)) + 1

\* Variant: the ban imposed one failure late (> for >=).
update_failed_attempts_gt(ip) ==
    [fa |-> Put(failed_attempts, ip, CountAfterFailure(ip)),
     la |-> Put(last_attempt_timestamps, ip, now),
     ban |-> IF CountAfterFailure(ip) > MAX_FAILED_ATTEMPTS
             THEN Put(ban_timestamps, ip, now)
             ELSE ban_timestamps]

\* update_failed_attempts: the three dicts it leaves.
update_failed_attempts(ip) ==
    [fa |-> Put(failed_attempts, ip, CountAfterFailure(ip)),
     la |-> Put(last_attempt_timestamps, ip, now),
     ban |-> IF CountAfterFailure(ip) >= MAX_FAILED_ATTEMPTS
             THEN Put(ban_timestamps, ip, now)
             ELSE ban_timestamps]

\* Variant: the reset lifting the ban as well.
reset_failed_attempts_lift_ban(ip) ==
    [fa |-> Del(failed_attempts, ip),
     la |-> Del(last_attempt_timestamps, ip),
     ban |-> Del(ban_timestamps, ip)]

\* Variant: the last-failure timestamp left behind by the reset.
reset_failed_attempts_keep_la(ip) ==
    [fa |-> Del(failed_attempts, ip),
     la |-> last_attempt_timestamps,
     ban |-> ban_timestamps]

\* reset_failed_attempts: the dicts it leaves (ban_timestamps is not touched).
reset_failed_attempts(ip) ==
    [fa |-> Del(failed_attempts, ip),
     la |-> Del(last_attempt_timestamps, ip),
     ban |-> ban_timestamps]

\* --------------------------------------------------------------- AuthGate
\* Variant: a missing or empty header treated as a malformed one.
Credential_missing_is_bad(a) ==
    IF a = None \/ a[1] = <<>>
    THEN "bad_format"
    ELSE IF ~StartsWith(a[1], BearerSp)
         THEN "bad_format"
         ELSE IF Split(a[1])[2] # VALID_TOKEN
              THEN "invalid_token"
              ELSE "valid"

\* The branch of validate_token taken for an Authorization header value.
Credential(a) ==
    IF a = None \/ a[1] = <<>>
    THEN "no_credential"
    ELSE IF ~StartsWith(a[1], BearerSp)
         THEN "bad_format"
         ELSE IF Split(a[1])[2] # VALID_TOKEN
              THEN "invalid_token"
              ELSE "valid"

\* The HTTP status of each branch of validate_token.
StatusOf(branch) == IF branch = "valid" THEN 200 ELSE 401

\* Variant: a malformed header rejected without being recorded.
AfterValidate_format_uncounted(ip, branch) ==
    CASE branch = "invalid_token" -> update_failed_attempts(ip)
      [] branch = "valid" -> reset_failed_attempts(ip)
      [] OTHER -> [fa |-> failed_attempts,
                   la |-> last_attempt_timestamps,
                   ban |-> ban_timestamps]

\* What validate_token leaves in the dicts for a request of ip on a branch.
AfterValidate(ip, branch) ==
    CASE branch \in {"bad_format", "invalid_token"} -> update_failed_attempts(ip)
      [] branch = "valid" -> reset_failed_attempts(ip)
      [] OTHER -> [fa |-> failed_attempts,
                   la |-> last_attempt_timestamps,
                   ban |-> ban_timestamps]

\* The tracker functions validate_token calls on a branch.
CallsOf(branch) ==
    CASE branch \in {"bad_format", "invalid_token"} -> <<"update_failed_attempts">>
      [] branch = "valid" -> <<"reset_failed_attempts">>
      [] OTHER -> <<>>

\* The response of ban_middleware for each outcome of is_ip_banned: 403 for a
\* banned client, 500 when the KeyError escapes, 0 for call_next (no response
\* yet, the route handler answers).
MiddlewareStatus(outcome) ==
    CASE outcome = "active" -> 403
      [] outcome = "KeyError" -> 500
      [] OTHER -> 0

\* --------------------------------------------------------------------- Init
Init ==
    /\ now = 0
    /\ ticks = 0
    /\ failed_attempts = <<>>
    /\ ban_timestamps = <<>>
    /\ last_attempt_timestamps = <<>>
    /\ pending = EmptyBag
    /\ last = [op |-> "start", req |-> NoRequest, status |-> 0,
               detail |-> "-", banck |-> "-", calls |-> <<>>, before |-> 0]
    /\ recorded = [c \in Clients |-> 0]
    /\ consec = [c \in Clients |-> 0]
    /\ admitted_since = [c \in Clients |-> FALSE]
    /\ cleared = [c \in Clients |-> FALSE]
    /\ first_failure = [c \in Clients |-> -1]

\* ------------------------------------------------------------------ actions
\* A request arrives: ban_middleware runs the ban check and either answers
\* (403, or 500 on the KeyError) or passes the request on (call_next).
ban_middleware(r) ==
    LET b == is_ip_banned(r.ip)
        st == MiddlewareStatus(b.outcome)
    IN  /\ st = 0 => BagCardinality(pending) < MaxInFlight
        /\ failed_attempts' = b.fa
        /\ ban_timestamps' = b.ban
        /\ pending' = IF st = 0 THEN pending (+) SetToBag({r}) ELSE pending
        /\ last' = [op |-> "ban_middleware", req |-> r, status |-> st,
                    detail |-> IF st = 403
                               THEN "Too many failed attempts. Please try again later."
                               ELSE IF st = 500 THEN "Internal Server Error" ELSE "-",
                    banck |-> b.outcome, calls |-> <<"is_ip_banned">>,
                    before |-> Count(failed_attempts, r.ip)]
        /\ recorded' = IF b.outcome = "expired"
                       THEN [recorded EXCEPT ![r.ip] = 0] ELSE recorded
        /\ admitted_since' = IF st = 0
                             THEN [admitted_since EXCEPT ![r.ip] = TRUE]
                             ELSE admitted_since
        /\ cleared' = IF b.outcome \in {"expired", "KeyError"}
                      THEN [cleared EXCEPT ![r.ip] = TRUE] ELSE cleared
        /\ first_failure' = IF b.outcome = "expired"
                            THEN [first_failure EXCEPT ![r.ip] = -1]
                            ELSE first_failure
        /\ UNCHANGED <<now, ticks, last_attempt_timestamps, consec>>

\* The route handler of a /validate request that passed the ban check.
validate_token(r) ==
    LET branch == Credential(r.authorization)
        t == AfterValidate(r.ip, branch)
        failure == branch \in {"bad_format", "invalid_token"}
        stale == /\ r.ip \in DOMAIN last_attempt_timestamps
                 /\ now - last_attempt_timestamps[r.ip] > FAILED_ATTEMPT_RESET
        norecord == /\ r.ip \notin DOMAIN failed_attempts
                    /\ r.ip \notin DOMAIN last_attempt_timestamps
                    /\ r.ip \notin DOMAIN ban_timestamps
    IN  /\ BagIn(r, pending)
        /\ r.path = "/validate"
        /\ failed_attempts' = t.fa
        /\ last_attempt_timestamps' = t.la
        /\ ban_timestamps' = t.ban
        /\ pending' = pending (-) SetToBag({r})
        /\ last' = [op |-> "validate_token", req |-> r, status |-> StatusOf(branch),
                    detail |-> branch, banck |-> "-", calls |-> CallsOf(branch),
                    before |-> Count(failed_attempts, r.ip)]
        /\ recorded' =
             IF failure
             THEN [recorded EXCEPT ![r.ip] = IF stale THEN 1 ELSE @ + 1]
             ELSE IF branch = "valid" THEN [recorded EXCEPT ![r.ip] = 0]
             ELSE recorded
        /\ consec' =
             IF failure
             THEN [consec EXCEPT ![r.ip] =
                     IF stale THEN 1
                     ELSE IF @ < MAX_FAILED_ATTEMPTS THEN @ + 1 ELSE @]
             ELSE IF branch = "valid" THEN [consec EXCEPT ![r.ip] = 0]
             ELSE consec
        /\ admitted_since' =
             IF failure /\ norecord
             THEN [admitted_since EXCEPT ![r.ip] = FALSE]
             ELSE IF failure /\ stale
             THEN [admitted_since EXCEPT ![r.ip] = TRUE]
             ELSE admitted_since
        /\ cleared' = IF failure \/ branch = "valid"
                      THEN [cleared EXCEPT ![r.ip] = FALSE] ELSE cleared
        /\ first_failure' =
             IF failure
             THEN [first_failure EXCEPT ![r.ip] =
                     IF stale \/ recorded[r.ip] = 0 THEN now ELSE @]
             ELSE IF branch = "valid" THEN [first_failure EXCEPT ![r.ip] = -1]
             ELSE first_failure
        /\ UNCHANGED <<now, ticks>>

\* The route handler of a /health request that passed the ban check.
health_check(r) ==
    /\ BagIn(r, pending)
    /\ r.path = "/health"
    /\ pending' = pending (-) SetToBag({r})
    /\ last' = [op |-> "health_check", req |-> r, status |-> 200,
                detail |-> "healthy", banck |-> "-", calls |-> <<>>, before |-> 0]
    /\ UNCHANGED <<now, ticks, tracker, recorded, consec, admitted_since, cleared,
                   first_failure>>

\* The clock advances between two steps.
Tick(d) ==
    /\ ticks < MaxTicks
    /\ ticks' = ticks + 1
    /\ now' = now + d
    /\ last' = [op |-> "tick", req |-> NoRequest, status |-> 0,
                detail |-> "-", banck |-> "-", calls |-> <<>>, before |-> 0]
    /\ UNCHANGED <<tracker, pending, recorded, consec, admitted_since, cleared,
                   first_failure>>

Next ==
    \/ \E r \in Requests : ban_middleware(r)
    \/ \E r \in Requests : validate_token(r)
    \/ \E r \in Requests : health_check(r)
    \/ \E d \in Delays : Tick(d)

Spec == Init /\ [][Next]_vars

\* =================================================================== claims
\* The step just taken recorded a failure for client c.
FailureRecorded(c) ==
    /\ last.op = "validate_token"
    /\ last.req.ip = c
    /\ last.calls = <<"update_failed_attempts">>

\* C1: a request that arrives while its client's ban is imposed and not
\* expired is answered 403 by the ban check, whatever header it carries; the
\* only tracker function called is is_ip_banned, nothing is recorded and the
\* request goes no further.
C1_BannedRejectedAtBanCheck ==
    [][\A r \in Requests :
          ( /\ last'.op = "ban_middleware"
            /\ last'.req = r
            /\ r.ip \in DOMAIN ban_timestamps
            /\ now - ban_timestamps[r.ip] <= BAN_DURATION )
          => /\ last'.status = 403
             /\ last'.calls = <<"is_ip_banned">>
             /\ UNCHANGED <<tracker, pending>>]_vars

\* A request with the correct token was answered 403 at the ban check, at the
\* last instant of the ban.
C1_Witness ==
    /\ last.op = "ban_middleware"
    /\ last.status = 403
    /\ last.req.path = "/validate"
    /\ last.req.authorization = Some(BearerSp \o VALID_TOKEN)
    /\ now - ban_timestamps[last.req.ip] = BAN_DURATION

\* C2 as stated: right after the failure that completes MAX_FAILED_ATTEMPTS
\* failures in a row (each within the window of the previous one, no success
\* between), a ban query returns True.
C2_Original ==
    \A c \in Clients :
        (FailureRecorded(c) /\ consec[c] >= MAX_FAILED_ATTEMPTS)
        => IsBannedReturn(c) = "True"

\* C2 (amended): right after the failure that completes MAX_FAILED_ATTEMPTS
\* failures in a row, each within the window of the previous one, with no
\* success and no ban expiry between them, a ban query returns True.
C2_BannedAfterMaxFailures ==
    \A c \in Clients :
        (FailureRecorded(c) /\ recorded[c] >= MAX_FAILED_ATTEMPTS)
        => IsBannedReturn(c) = "True"

\* The fifth failure in a row has just been recorded.
C2_Witness ==
    \E c \in Clients :
        /\ FailureRecorded(c)
        /\ recorded[c] = MAX_FAILED_ATTEMPTS
        /\ last.before = MAX_FAILED_ATTEMPTS - 1

\* C3: the first ban query made for a banned client at a time
\* now > bannedAt + BAN_DURATION returns False (the request is passed on), and
\* right after it the client's failure count reads 0 and no ban timestamp
\* remains.
C3_ExpiredBanFullReset ==
    [][\A c \in Clients :
          ( /\ last'.op = "ban_middleware"
            /\ last'.req.ip = c
            /\ c \in DOMAIN ban_timestamps
            /\ now > ban_timestamps[c] + BAN_DURATION )
          => /\ last'.banck = "expired"
             /\ last'.status = 0
             /\ Count(failed_attempts', c) = 0
             /\ c \notin DOMAIN ban_timestamps']_vars

\* C4: for a client banned by wrong-token requests, the first request that
\* arrives more than BAN_DURATION after the ban and carries the correct token
\* passes the ban check, is answered 200 by validate_token, and leaves no
\* failure count, no last-failure timestamp and no ban timestamp.
C4_CorrectTokenAfterExpiry ==
    [][\A r \in Requests :
          (r.path = "/validate" /\ r.authorization = Some(BearerSp \o VALID_TOKEN))
          => /\ ( /\ last'.op = "ban_middleware"
                  /\ last'.req = r
                  /\ r.ip \in DOMAIN ban_timestamps
                  /\ now > ban_timestamps[r.ip] + BAN_DURATION )
                => last'.status = 0
             /\ ( /\ last.op = "ban_middleware"
                  /\ last.req = r
                  /\ last.banck \in {"expired", "KeyError"}
                  /\ last'.op = "validate_token"
                  /\ last'.req = r )
                => /\ last'.status = 200
                   /\ r.ip \notin DOMAIN failed_attempts'
                   /\ r.ip \notin DOMAIN last_attempt_timestamps'
                   /\ r.ip \notin DOMAIN ban_timestamps']_vars

\* C5: a failure recorded more than FAILED_ATTEMPT_RESET after the client's
\* previous failure leaves the failure count at exactly 1, whatever it was
\* before, and a ban query made right after it returns False.
C5_StaleFailureCountsAlone ==
    [][\A c \in Clients :
          ( /\ last'.op = "validate_token"
            /\ last'.req.ip = c
            /\ last'.calls = <<"update_failed_attempts">>
            /\ c \in DOMAIN last_attempt_timestamps
            /\ now - last_attempt_timestamps[c] > FAILED_ATTEMPT_RESET )
          => /\ c \in DOMAIN failed_attempts'
             /\ failed_attempts'[c] = 1
             /\ IsBannedReturn(c)' = "False"]_vars

\* A failure was recorded 1801 s after the fourth failure in a row: the count
\* went from 4 to 1.
C5_Witness ==
    \E c \in Clients :
        /\ FailureRecorded(c)
        /\ last.before = MAX_FAILED_ATTEMPTS - 1
        /\ failed_attempts[c] = 1
        /\ c \notin DOMAIN ban_timestamps

\* The header is absent or empty.
NoCredential(a) == a = None \/ a = Some(<<>>)

\* The header is present and invalid in one of the two ways C7 names: it does
\* not begin with "Bearer ", or it is "Bearer " followed by one token (no
\* further space) that is not the secret.
InvalidCredential(a) ==
    /\ ~NoCredential(a)
    /\ \/ ~StartsWith(a[1], BearerSp)
       \/ /\ StartsWith(a[1], BearerSp)
          /\ \A i \in (Len(BearerSp) + 1)..Len(a[1]) : a[1][i] # " "
          /\ SubSeq(a[1], Len(BearerSp) + 1, Len(a[1])) # VALID_TOKEN

\* C6: a request of a client with no ban timestamp whose Authorization header
\* is absent or empty passes the ban check and is answered 401
\* (no-credential), and neither step changes failed_attempts,
\* last_attempt_timestamps or ban_timestamps.
C6_MissingHeaderNotCounted ==
    [][\A r \in Requests :
          (r.path = "/validate" /\ NoCredential(r.authorization) /\ last'.req = r)
          => /\ ( last'.op = "ban_middleware" /\ r.ip \notin DOMAIN ban_timestamps )
                => (last'.status = 0 /\ UNCHANGED tracker)
             /\ last'.op = "validate_token"
                => /\ last'.status = 401
                   /\ last'.detail = "no_credential"
                   /\ last'.calls = <<>>
                   /\ UNCHANGED tracker]_vars

\* A request with an empty header was answered 401 while the client stood one
\* failure short of the ban, and the count is still there.
C6_Witness ==
    /\ last.op = "validate_token"
    /\ last.req.authorization = Some(<<>>)
    /\ last.status = 401
    /\ last.before = MAX_FAILED_ATTEMPTS - 1
    /\ failed_attempts[last.req.ip] = MAX_FAILED_ATTEMPTS - 1
    /\ last.req.ip \notin DOMAIN ban_timestamps

\* C7: validate_token answers a present but invalid header (wrong scheme, or
\* "Bearer " with a token that is not the secret) with 401 and calls
\* update_failed_attempts exactly once: the failure count becomes the old
\* count plus one, or 1 when the previous failure is older than
\* FAILED_ATTEMPT_RESET.
C7_InvalidHeaderCountedOnce ==
    [][\A r \in Requests :
          ( /\ last'.op = "validate_token"
            /\ last'.req = r
            /\ InvalidCredential(r.authorization) )
          => /\ last'.status = 401
             /\ last'.calls = <<"update_failed_attempts">>
             /\ r.ip \in DOMAIN failed_attempts'
             /\ failed_attempts'[r.ip] =
                  IF /\ r.ip \in DOMAIN last_attempt_timestamps
                     /\ now - last_attempt_timestamps[r.ip] > FAILED_ATTEMPT_RESET
                  THEN 1
                  ELSE Count(failed_attempts, r.ip) + 1
             /\ last_attempt_timestamps'[r.ip] = now]_vars

\* A request with a non-Bearer scheme was answered 401 and raised the count
\* from 2 to 3.
C7_Witness ==
    /\ last.op = "validate_token"
    /\ last.detail = "bad_format"
    /\ last.status = 401
    /\ last.before = 2
    /\ failed_attempts[last.req.ip] = 3

C9_HealthIndependentOfBan ==
    last.req.path = "/health"
    => \/ last.op = "ban_middleware" /\ last.status = 0
       \/ last.op = "health_check" /\ last.status = 200 /\ last.detail = "healthy"

\* C10: no increment is lost: the failure count equals the number of
\* update_failed_attempts calls made since the count last started from
\* nothing (no entry, or a stale window), under every interleaving of the
\* requests in flight.
C10_NoLostIncrement ==
    \A c \in Clients : Count(failed_attempts, c) = recorded[c]

\* MaxInFlight failing requests passed the ban check while the client had no
\* record, no other request was admitted, and all of them have been handled.
C10_Witness ==
    \E c \in Clients :
        /\ FailureRecorded(c)
        /\ ~admitted_since[c]
        /\ pending = EmptyBag
        /\ recorded[c] = MaxInFlight
        /\ failed_attempts[c] = MaxInFlight

\* The client has no entry in any of the three dicts.
NoRecord(c) ==
    /\ c \notin DOMAIN failed_attempts
    /\ c \notin DOMAIN last_attempt_timestamps
    /\ c \notin DOMAIN ban_timestamps

\* C11: a client whose expired ban is_ip_banned has lifted is answered like a
\* client with no record, at every later time and for every request: it is
\* not banned and has no failure count; its ban check passes and changes
\* nothing; a failure gives 401 and a count of exactly 1 with no ban; a
\* missing header gives 401 and changes nothing; the correct token gives 200
\* and leaves no record.  After the first failure or success the two clients'
\* entries are the same, so every later answer is the same too.
C11_ExpiredBanLikeFresh ==
    [][\A c \in Clients :
          (cleared[c] \/ NoRecord(c))
          => /\ Count(failed_attempts, c) = 0
             /\ IsBannedReturn(c) = "False"
             /\ (last'.op = "ban_middleware" /\ last'.req.ip = c)
                => /\ last'.status = 0
                   /\ UNCHANGED tracker
             /\ (last'.op = "validate_token" /\ last'.req.ip = c)
                => CASE last'.detail = "no_credential" ->
                            last'.status = 401 /\ UNCHANGED tracker
                     [] last'.detail \in {"bad_format", "invalid_token"} ->
                            /\ last'.status = 401
                            /\ failed_attempts' = Put(failed_attempts, c, 1)
                            /\ last_attempt_timestamps'[c] = now
                            /\ c \notin DOMAIN ban_timestamps'
                     [] OTHER ->
                            /\ last'.status = 200
                            /\ NoRecord(c)']_vars

\* A failure was recorded for a client whose ban had expired and been lifted:
\* the count found was 0 and is now 1, and the client is not banned.
C11_Witness ==
    \E c \in Clients :
        /\ FailureRecorded(c)
        /\ consec[c] = MAX_FAILED_ATTEMPTS
        /\ recorded[c] = 1
        /\ last.before = 0
        /\ failed_attempts[c] = 1
        /\ c \notin DOMAIN ban_timestamps

\* C12: no reachable state has a half-cleared record: a client with a ban
\* timestamp has a failure count entry, and that count is at least
\* MAX_FAILED_ATTEMPTS.
C12_NoHalfClearedRecord ==
    \A c \in Clients :
        c \in DOMAIN ban_timestamps
        => /\ c \in DOMAIN failed_attempts
           /\ failed_attempts[c] >= MAX_FAILED_ATTEMPTS

\* C13: a client whose failure count is 0 or absent has no ban timestamp and
\* no last-failure timestamp, in every reachable state.
C13_ZeroCountMeansNoTimestamps ==
    \A c \in Clients :
        Count(failed_attempts, c) = 0
        => /\ c \notin DOMAIN ban_timestamps
           /\ c \notin DOMAIN last_attempt_timestamps

\* C14 as stated: a client has a ban timestamp if and only if its failure
\* count reached MAX_FAILED_ATTEMPTS at some point since its last reset and
\* the ban has not expired (now - bannedAt <= BAN_DURATION).
C14_Original ==
    \A c \in Clients :
        c \in DOMAIN ban_timestamps
        <=> /\ recorded[c] >= MAX_FAILED_ATTEMPTS
            /\ c \in DOMAIN ban_timestamps
               => now - ban_timestamps[c] <= BAN_DURATION

\* C14 (amended): a client has a ban timestamp if and only if its failure
\* count reached MAX_FAILED_ATTEMPTS at some point and no ban query has since
\* found the ban expired.  Step by step: the timestamp is there after a step
\* exactly when that step recorded a failure that left the count at or above
\* MAX_FAILED_ATTEMPTS, or it was there before and the step was not a ban
\* query made more than BAN_DURATION after it.
C14_BanSetUntilFoundExpired ==
    [][\A c \in Clients :
          c \in DOMAIN ban_timestamps'
          <=> \/ /\ last'.op = "validate_token"
                 /\ last'.req.ip = c
                 /\ last'.calls = <<"update_failed_attempts">>
                 /\ failed_attempts'[c] >= MAX_FAILED_ATTEMPTS
              \/ /\ c \in DOMAIN ban_timestamps
                 /\ ~ ( /\ last'.op = "ban_middleware"
                        /\ last'.req.ip = c
                        /\ now - ban_timestamps[c] > BAN_DURATION )]_vars

\* The ban expired one second ago and no request has come since: the ban
\* timestamp is still set.
C14_Witness ==
    \E c \in Clients :
        /\ last.op = "tick"
        /\ c \in DOMAIN ban_timestamps
        /\ now - ban_timestamps[c] = BAN_DURATION + 1
        /\ failed_attempts[c] = MAX_FAILED_ATTEMPTS

\* C15: the ban tracker never raises.  update_failed_attempts and
\* reset_failed_attempts have no raising path (defaultdict reads, guarded
\* deletes); the claim comes down to is_ip_banned: no ban check ever takes
\* the expiry branch with the failure-count entry missing.
C15_TrackerNeverRaises ==
    /\ last.banck # "KeyError"
    /\ last.status # 500

\* C16: reset_failed_attempts is never executed for a client that has an
\* active, unexpired ban (the step leaves ban_timestamps and now as they were,
\* so the ban it ran under is the one in the state it leaves).
C16_NoSuccessDuringActiveBan ==
    \A c \in Clients :
        ( /\ last.op = "validate_token"
          /\ last.req.ip = c
          /\ last.calls = <<"reset_failed_attempts">> )
        => ~ ( /\ c \in DOMAIN ban_timestamps
               /\ now - ban_timestamps[c] <= BAN_DURATION )

\* C17: a ban is lifted only by the expiry branch of is_ip_banned.  While a
\* ban timestamp t is set: a query at now - t <= BAN_DURATION returns True and
\* a ban check made then answers 403 and leaves the tracker as it was; a
\* validate_token step (reset_failed_attempts or update_failed_attempts)
\* leaves a ban timestamp in place; and the only step after which the
\* timestamp is gone is a ban check made at now - t > BAN_DURATION.
C17_BanLiftedOnlyByLazyExpiry ==
    [][\A c \in Clients :
          c \in DOMAIN ban_timestamps
          => /\ now - ban_timestamps[c] <= BAN_DURATION
                => /\ IsBannedReturn(c) = "True"
                   /\ (last'.op = "ban_middleware" /\ last'.req.ip = c)
                      => /\ last'.status = 403
                         /\ UNCHANGED tracker
             /\ last'.op = "validate_token" => c \in DOMAIN ban_timestamps'
             /\ c \notin DOMAIN ban_timestamps'
                => /\ last'.op = "ban_middleware"
                   /\ last'.req.ip = c
                   /\ now - ban_timestamps[c] > BAN_DURATION]_vars

\* A ban check made exactly BAN_DURATION after the ban was imposed answered
\* 403 and the ban is still in place.
C17_Witness ==
    \E c \in Clients :
        /\ last.op = "ban_middleware"
        /\ last.req.ip = c
        /\ last.status = 403
        /\ c \in DOMAIN ban_timestamps
        /\ now - ban_timestamps[c] = BAN_DURATION

\* C18: the window is measured from the previous failure.  A failure recorded
\* at most FAILED_ATTEMPT_RESET after the client's previous one (exactly
\* FAILED_ATTEMPT_RESET included) adds one to the count it finds, and the
\* failure that makes MAX_FAILED_ATTEMPTS failures counted this way bans the
\* client at that moment, however long ago the first of them was.
C18_WindowResetsPerFailure ==
    [][\A c \in Clients :
          ( /\ last'.op = "validate_token"
            /\ last'.req.ip = c
            /\ last'.calls = <<"update_failed_attempts">> )
          => /\ ( /\ c \in DOMAIN last_attempt_timestamps
                  /\ now - last_attempt_timestamps[c] <= FAILED_ATTEMPT_RESET )
                => failed_attempts'[c] = Count(failed_attempts, c) + 1
             /\ recorded'[c] >= MAX_FAILED_ATTEMPTS
                => /\ c \in DOMAIN ban_timestamps'
                   /\ ban_timestamps'[c] = now]_vars

\* The fifth failure of an unbroken count came more than FAILED_ATTEMPT_RESET
\* after the first, and it banned the client.
C18_Witness ==
    \E c \in Clients :
        /\ FailureRecorded(c)
        /\ recorded[c] = MAX_FAILED_ATTEMPTS
        /\ last.before = MAX_FAILED_ATTEMPTS - 1
        /\ first_failure[c] >= 0
        /\ now - first_failure[c] > FAILED_ATTEMPT_RESET
        /\ failed_attempts[c] = MAX_FAILED_ATTEMPTS
        /\ c \in DOMAIN ban_timestamps
        /\ ban_timestamps[c] = now

\* C19: a failure that leaves the count at or above MAX_FAILED_ATTEMPTS
\* leaves the client banned: with bannedAt = now if the client had no ban,
\* and with the ban timestamp it already had if the client was under an
\* active ban (the ban, and so its expiry time, is not moved).
C19_BanImposedIdempotent ==
    [][\A c \in Clients :
          ( /\ last'.op = "validate_token"
            /\ last'.req.ip = c
            /\ last'.calls = <<"update_failed_attempts">>
            /\ failed_attempts'[c] >= MAX_FAILED_ATTEMPTS )
          => /\ c \in DOMAIN ban_timestamps'
             /\ c \notin DOMAIN ban_timestamps => ban_timestamps'[c] = now
             /\ ( /\ c \in DOMAIN ban_timestamps
                  /\ now - ban_timestamps[c] <= BAN_DURATION )
                => ban_timestamps'[c] = ban_timestamps[c]]_vars

\* C20: validate_token admits a request (200, reset_failed_attempts called)
\* only when its Authorization header is exactly "Bearer " followed by
\* VALID_TOKEN; every other header that is present and not empty is answered
\* 401 and recorded as a failure.
C20_OnlyExactBearerSecretAdmitted ==
    last.op = "validate_token"
    => /\ (last.status = 200 \/ last.calls = <<"reset_failed_attempts">>)
          => last.req.authorization = Some(BearerSp \o VALID_TOKEN)
       /\ ( /\ ~NoCredential(last.req.authorization)
            /\ last.req.authorization # Some(BearerSp \o VALID_TOKEN) )
          => /\ last.status = 401
             /\ last.calls = <<"update_failed_attempts">>

\* C21: in every reachable state every client's failure count is at most
\* MAX_FAILED_ATTEMPTS (no failure is counted once the threshold is reached,
\* until the record is reset).
C21_CountAtMostMax ==
    \A c \in Clients : Count(failed_attempts, c) <= MAX_FAILED_ATTEMPTS

====
